---- MODULE Spec2Model ----
(***************************************************************************)
(* Model of the task-queue runner (scripts/start_train_queue.py), of the   *)
(* epoch loop (src/trainers/yolo_trainer.py) and of the training entry     *)
(* point (src/train.py).                                                   *)
(*                                                                         *)
(* SpecQueue : start_train_queue running against a queue document that a   *)
(*             human may edit while the runner is alive.                   *)
(* SpecTrain : one call of train() with its train_step / test_step passes. *)
(* SpecPass  : train() over a single epoch, with batches that differ in    *)
(*             size, loss and category counts.                             *)
(* SpecEntry : the confirmation prompt and train(args) of train.py.        *)
(***************************************************************************)
EXTENDS Integers, Sequences, FiniteSets, TLC

VARIABLES
    \* ---- start_train_queue ----
    doc,         \* queue["tasks"] as persisted in train_queue.yaml
    queue,       \* queue["tasks"] as last loaded by the runner
    task,        \* the local `task`
    task_index,  \* the local `task_index`
    num_tasks,   \* the local `num_tasks` (INF before the first iteration ends)
    pc,          \* position of the runner in start_train_queue
    fault,       \* exception that left start_train_queue, or "none"
    finalMsg,    \* last line printed by the runner on a normal stop
    loads,       \* history: the document read by each load, in order
    procLog,     \* history: external steps started, with their exit status
    reports,     \* history: per-task success / failure lines printed
    numEdits,    \* history: number of edits made to the document
    \* ---- train ----
    epoch_start, epoch_end, checkpoint_interval, log_interval,
    num_batches, \* len(train_dataloader)
    val_batches, \* len(val_dataloader)
    epoch,       \* loop variable of train()
    batch,       \* loop variable of train_step / test_step
    tpc,         \* position inside train()
    train_data,  \* what each batch of train_dataloader yields
    val_data,    \* what each batch of val_dataloader yields
    locals,      \* the counters of the running train_step / test_step
    exc,         \* exception raised inside train(), or "none"
    calls,       \* history: calls made on run_manager, model and lr_scheduler
    \* ---- train.py entry point ----
    inp,         \* the line typed at the confirmation prompt
    args,        \* the parsed command line
    cuda_available,  \* torch.cuda.is_available()
    latest_epoch,    \* epoch index of the newest checkpoint of the prior run
    path_epoch,      \* epoch index recorded in the artifact at the given path
    loaded,      \* which checkpoint load_checkpoint resolved, or "none"
    epc,         \* position in the entry point
    effects      \* history: objects constructed and records written

qvars == <<doc, queue, task, task_index, num_tasks, pc, fault, finalMsg,
           loads, procLog, reports, numEdits>>
tvars == <<epoch_start, epoch_end, checkpoint_interval, log_interval,
           num_batches, val_batches, epoch, batch, tpc, train_data, val_data,
           locals, exc, calls>>
evars == <<inp, args, cuda_available, latest_epoch, path_epoch, loaded,
           epc, effects>>
vars == <<qvars, tvars, evars>>

----------------------------------------------------------------------------
(* Bounds *)
MaxTasks == 3
MaxEdits == 1
MaxEpochStart == 2
MaxNumEpochs == 3
MaxCheckpointInterval == 3
MaxLogInterval == 2
MaxBatches == 3
MaxValBatches == 1
MaxPassBatches == 4
MaxCkptEpoch == 2

----------------------------------------------------------------------------
(* Queue document *)

\* float("inf"), the initial num_tasks
INF == -1

\* the substring load_and_validate_yaml_file forbids in `run`
RM == <<"r", "m">>

\* Task records as yaml.safe_load returns them: a missing key is absent from
\* the mapping.  `run` is a string, kept as its sequence of characters.
TaskPool ==
    { [index |-> 2, name |-> "a", run |-> <<"p", "y">>, git_checkout_target |-> "main"],
      [index |-> 1, name |-> "b", run |-> <<"p", "y">>, git_checkout_target |-> "dev"],
      [index |-> 3, run |-> <<"p", "y">>, git_checkout_target |-> "main"],
      [index |-> 4, name |-> "c", git_checkout_target |-> "main"],
      [index |-> 5, name |-> "d", run |-> <<"p", "y">>],
      [index |-> 6, name |-> "e", run |-> <<"n", "o", "r", "m">>, git_checkout_target |-> "main"] }

SeqsUpTo(S, n) == UNION { [1..m -> S] : m \in 0..n }

Docs == SeqsUpTo(TaskPool, MaxTasks)

\* `sub in s` on Python strings
Contains(s, sub) ==
    \E i \in 1..(Len(s) - Len(sub) + 1) : SubSeq(s, i, i + Len(sub) - 1) = sub

\* body of the validation loop for one task: TRUE iff no ValueError is raised
TaskAccepted(t) ==
    /\ "run" \in DOMAIN t
    /\ "git_checkout_target" \in DOMAIN t
    /\ ~Contains(t.run, RM)

\* load_and_validate_yaml_file returns (TRUE) or raises ValueError (FALSE)
Validate_firstOnly(q) == Len(q) = 0 \/ TaskAccepted(q[1])

Validate(q) == \A i \in 1..Len(q) : TaskAccepted(q[i])

\* queue["tasks"][task_index]
SelectTask_byIndexField(q, i) ==
    q[CHOOSE j \in 1..Len(q) :
        Cardinality({ m \in 1..Len(q) :
            \/ q[m].index < q[j].index
            \/ q[m].index = q[j].index /\ m < j }) = i]

SelectTask(q, i) == q[i + 1]

\* `not task` for a mapping
IsFalsy(t) == DOMAIN t = {}

\* task_index < num_tasks, with num_tasks possibly float("inf")
LessThan(i, n) == IF n = INF THEN TRUE ELSE i < n

NoTask == <<>>

\* Documents the human editor can turn d into with one edit: append a task,
\* cut the document to a shorter prefix, or delete the first task.
EditsOf(d) ==
    { Append(d, t) : t \in IF Len(d) < MaxTasks THEN TaskPool ELSE {} }
      \cup { SubSeq(d, 1, n) : n \in 0..(Len(d) - 1) }
      \cup (IF Len(d) > 0 THEN {Tail(d)} ELSE {})

----------------------------------------------------------------------------
(* start_train_queue *)

TrainIdle ==
    /\ epoch_start = 0 /\ epoch_end = 0 /\ checkpoint_interval = 1
    /\ log_interval = 1 /\ num_batches = 0 /\ val_batches = 0
    /\ epoch = 0 /\ batch = 0 /\ tpc = "idle" /\ calls = <<>>
    /\ train_data = <<>> /\ val_data = <<>> /\ exc = "none"
    /\ locals = [loss |-> 0, num_correct |-> 0, num_incorrect_localization |-> 0,
                 num_incorrect_other |-> 0, num_incorrect_background |-> 0,
                 num_predictions |-> 0]

\* Python's None for an option that was not given
NONE == "None"

NoArgs == [num_epochs |-> 0, device |-> "cpu",
           continue_from_checkpoint_run_id |-> NONE,
           continue_from_checkpoint_path |-> NONE]

EntryIdle ==
    /\ inp = <<>> /\ args = NoArgs /\ cuda_available = FALSE
    /\ latest_epoch = 0 /\ path_epoch = 0 /\ loaded = "none"
    /\ epc = "idle" /\ effects = <<>>

QInit ==
    /\ doc \in Docs
    /\ queue = <<>>
    /\ task = NoTask
    /\ task_index = 0
    /\ num_tasks = INF
    /\ pc = "while"
    /\ fault = "none"
    /\ finalMsg = "none"
    /\ loads = <<>>
    /\ procLog = <<>>
    /\ reports = <<>>
    /\ numEdits = 0
    /\ TrainIdle
    /\ EntryIdle

\* the yaml file is rewritten by its editor while the runner is alive
Edit ==
    /\ pc \notin {"done", "fault"}
    /\ numEdits < MaxEdits
    /\ \E d \in EditsOf(doc) : doc' = d
    /\ numEdits' = numEdits + 1
    /\ UNCHANGED <<queue, task, task_index, num_tasks, pc, fault, finalMsg,
                   loads, procLog, reports>>

\* while task_index < num_tasks: ... ; print("All tasks executed successfully.")
WhileTest ==
    /\ pc = "while"
    /\ IF LessThan(task_index, num_tasks)
       THEN pc' = "load" /\ UNCHANGED finalMsg
       ELSE pc' = "done" /\ finalMsg' = "All tasks executed successfully."
    /\ UNCHANGED <<doc, queue, task, task_index, num_tasks, fault,
                   loads, procLog, reports, numEdits>>

\* queue = load_and_validate_yaml_file(path=path)
Load ==
    /\ pc = "load"
    /\ loads' = Append(loads, doc)
    /\ IF Validate(doc)
       THEN queue' = doc /\ pc' = "select" /\ UNCHANGED fault
       ELSE pc' = "fault" /\ fault' = "ValueError" /\ UNCHANGED queue
    /\ UNCHANGED <<doc, task, task_index, num_tasks, finalMsg,
                   procLog, reports, numEdits>>

\* task = queue["tasks"][task_index]; if not task: return; the two prints
Select ==
    /\ pc = "select"
    /\ IF task_index + 1 > Len(queue)
       THEN pc' = "fault" /\ fault' = "IndexError" /\ UNCHANGED <<task, finalMsg>>
       ELSE LET t == SelectTask(queue, task_index) IN
            /\ task' = t
            /\ IF IsFalsy(t)
               THEN pc' = "done" /\ finalMsg' = "No more tasks in the queue."
                    /\ UNCHANGED fault
               ELSE IF "name" \notin DOMAIN t
               THEN pc' = "fault" /\ fault' = "KeyError" /\ UNCHANGED finalMsg
               ELSE pc' = "checkout" /\ UNCHANGED <<fault, finalMsg>>
    /\ UNCHANGED <<doc, queue, task_index, num_tasks, loads, procLog,
                   reports, numEdits>>

\* subprocess.run("git checkout ... && git pull", check=True) and, when it
\* exits non-zero, the except clause
Checkout_uncaught ==
    /\ pc = "checkout"
    /\ \E ok \in BOOLEAN :
         /\ procLog' = Append(procLog, [ev |-> "checkout", pos |-> task_index,
                                         task |-> task, ok |-> ok])
         /\ IF ok
            THEN pc' = "reset_cuda" /\ UNCHANGED <<reports, fault>>
            ELSE pc' = "fault" /\ fault' = "CalledProcessError" /\ UNCHANGED reports
    /\ UNCHANGED <<doc, queue, task, task_index, num_tasks, finalMsg,
                   loads, numEdits>>

Checkout_unchecked ==
    /\ pc = "checkout"
    /\ \E ok \in BOOLEAN :
         procLog' = Append(procLog, [ev |-> "checkout", pos |-> task_index,
                                      task |-> task, ok |-> ok])
    /\ pc' = "reset_cuda"
    /\ UNCHANGED <<doc, queue, task, task_index, num_tasks, fault, finalMsg,
                   loads, reports, numEdits>>

Checkout ==
    /\ pc = "checkout"
    /\ \E ok \in BOOLEAN :
         /\ procLog' = Append(procLog, [ev |-> "checkout", pos |-> task_index,
                                         task |-> task, ok |-> ok])
         /\ IF ok
            THEN pc' = "reset_cuda" /\ UNCHANGED reports
            ELSE /\ pc' = "advance"
                 /\ reports' = Append(reports, [pos |-> task_index,
                                                name |-> task.name,
                                                result |-> "failed"])
    /\ UNCHANGED <<doc, queue, task, task_index, num_tasks, fault, finalMsg,
                   loads, numEdits>>

\* reset_cuda()
ResetCuda ==
    /\ pc = "reset_cuda"
    /\ procLog' = Append(procLog, [ev |-> "reset_cuda", pos |-> task_index,
                                    task |-> task, ok |-> TRUE])
    /\ pc' = "run"
    /\ UNCHANGED <<doc, queue, task, task_index, num_tasks, fault, finalMsg,
                   loads, reports, numEdits>>

\* subprocess.run(task["run"], check=True), the success print, the except clause
RunTask ==
    /\ pc = "run"
    /\ \E ok \in BOOLEAN :
         /\ procLog' = Append(procLog, [ev |-> "run", pos |-> task_index,
                                         task |-> task, ok |-> ok])
         /\ reports' = Append(reports, [pos |-> task_index, name |-> task.name,
                                         result |-> IF ok THEN "executed successfully"
                                                          ELSE "failed"])
    /\ pc' = "advance"
    /\ UNCHANGED <<doc, queue, task, task_index, num_tasks, fault, finalMsg,
                   loads, numEdits>>

\* task_index += 1; num_tasks = len(queue["tasks"])
Advance ==
    /\ pc = "advance"
    /\ task_index' = task_index + 1
    /\ num_tasks' = Len(queue)
    /\ pc' = "while"
    /\ UNCHANGED <<doc, queue, task, fault, finalMsg, loads, procLog,
                   reports, numEdits>>

QNext ==
    \/ (Edit /\ UNCHANGED <<tvars, evars>>)
    \/ (WhileTest /\ UNCHANGED <<tvars, evars>>)
    \/ (Load /\ UNCHANGED <<tvars, evars>>)
    \/ (Select /\ UNCHANGED <<tvars, evars>>)
    \/ (Checkout /\ UNCHANGED <<tvars, evars>>)
    \/ (ResetCuda /\ UNCHANGED <<tvars, evars>>)
    \/ (RunTask /\ UNCHANGED <<tvars, evars>>)
    \/ (Advance /\ UNCHANGED <<tvars, evars>>)

SpecQueue == QInit /\ [][QNext]_vars

----------------------------------------------------------------------------
(* train(), train_step(), test_step() *)

QueueIdle ==
    /\ doc = <<>> /\ queue = <<>> /\ task = NoTask /\ task_index = 0
    /\ num_tasks = INF /\ pc = "idle" /\ fault = "none" /\ finalMsg = "none"
    /\ loads = <<>> /\ procLog = <<>> /\ reports = <<>> /\ numEdits = 0

\* A step value epoch + batch / len(dataloader) is kept exactly, as the pair
\* <<numerator, denominator>>.
IntStep(e) == <<e, 1>>

\* epoch + batch / len(dataloader)
FracStep(e, b, n) == <<e * n + b, n>>

\* a <= b on step values
StepLeq(a, b) == a[1] * b[2] <= b[1] * a[2]

\* one entry of the call history
Call(op, e, step) == [op |-> op, epoch |-> e, step |-> step]

\* a log_metrics entry of the call history, with the mapping it was given
LogCall(op, e, step, m) == [op |-> op, epoch |-> e, step |-> step, metrics |-> m]

\* What one batch yields: len(y), loss.item() and the result_dict of
\* utils.get_yolo_metrics (four counts that add up to len(y)).
BatchResults ==
    { [len_y |-> 1, loss |-> 1, num_correct |-> 1, num_incorrect_localization |-> 0,
       num_incorrect_other |-> 0, num_incorrect_background |-> 0],
      [len_y |-> 2, loss |-> 2, num_correct |-> 0, num_incorrect_localization |-> 1,
       num_incorrect_other |-> 0, num_incorrect_background |-> 1],
      [len_y |-> 2, loss |-> 1, num_correct |-> 1, num_incorrect_localization |-> 0,
       num_incorrect_other |-> 1, num_incorrect_background |-> 0] }

DefaultBatch ==
    [len_y |-> 1, loss |-> 1, num_correct |-> 1, num_incorrect_localization |-> 0,
     num_incorrect_other |-> 0, num_incorrect_background |-> 0]

\* the locals of train_step / test_step as their first lines set them
ZeroLocals ==
    [loss |-> 0, num_correct |-> 0, num_incorrect_localization |-> 0,
     num_incorrect_other |-> 0, num_incorrect_background |-> 0,
     num_predictions |-> 0]

\* train_loss += loss.item(); num_correct += ...; num_predictions += len(y)
Accumulate(w, r) ==
    [loss |-> w.loss + r.loss,
     num_correct |-> w.num_correct + r.num_correct,
     num_incorrect_localization |->
         w.num_incorrect_localization + r.num_incorrect_localization,
     num_incorrect_other |-> w.num_incorrect_other + r.num_incorrect_other,
     num_incorrect_background |->
         w.num_incorrect_background + r.num_incorrect_background,
     num_predictions |-> w.num_predictions + r.len_y]

\* the assignments that follow the log_metrics call of train_step
ResetWindow_kept(w) == w

ResetWindow(w) ==
    [w EXCEPT !.num_correct = 0, !.num_incorrect_localization = 0,
              !.num_incorrect_other = 0, !.num_incorrect_background = 0,
              !.num_predictions = 0]

\* the four ratios x / num_predictions, each kept as <<numerator, denominator>>
Ratios(w) ==
    [accuracy |-> <<w.num_correct, w.num_predictions>>,
     percent_incorrect_localization |->
         <<w.num_incorrect_localization, w.num_predictions>>,
     percent_incorrect_other |-> <<w.num_incorrect_other, w.num_predictions>>,
     percent_incorrect_background |->
         <<w.num_incorrect_background, w.num_predictions>>]

\* batch != 0 and batch % log_interval == 0
ShouldLog(b, li) == b # 0 /\ b % li = 0

\* the epoch argument train() passes to test_step
EvalStep_same(e) == e

EvalStep(e) == e + 1

\* epoch % checkpoint_interval == 0 or epoch == epoch_end - 1
ShouldCheckpoint_nofinal(e, k, last) == e % k = 0

ShouldCheckpoint(e, k, last) == e % k = 0 \/ e = last - 1

\* range(epoch_start, epoch_end) has a next value
InRange_inclusive(e, last) == e <= last

InRange(e, last) == e < last

\* train() over several epochs; every batch yields DefaultBatch
TInit ==
    /\ epoch_start \in 0..MaxEpochStart
    /\ \E n \in 0..MaxNumEpochs : epoch_end = epoch_start + n
    /\ checkpoint_interval \in 1..MaxCheckpointInterval
    /\ log_interval \in 1..MaxLogInterval
    /\ num_batches \in 0..MaxBatches
    /\ val_batches \in 0..MaxValBatches
    /\ train_data = [i \in 1..num_batches |-> DefaultBatch]
    /\ val_data = [i \in 1..val_batches |-> DefaultBatch]
    /\ locals = ZeroLocals
    /\ exc = "none"
    /\ epoch = epoch_start
    /\ batch = 0
    /\ tpc = "start"
    /\ calls = <<>>
    /\ QueueIdle
    /\ EntryIdle

\* train() over one epoch; the batches yield any of BatchResults
PInit ==
    /\ epoch_start \in 0..MaxEpochStart
    /\ epoch_end = epoch_start + 1
    /\ checkpoint_interval = 1
    /\ log_interval \in 1..MaxLogInterval
    /\ train_data \in SeqsUpTo(BatchResults, MaxPassBatches)
    /\ num_batches = Len(train_data)
    /\ val_batches \in 0..MaxValBatches
    /\ val_data \in [1..val_batches -> BatchResults]
    /\ locals = ZeroLocals
    /\ exc = "none"
    /\ epoch = epoch_start
    /\ batch = 0
    /\ tpc = "start"
    /\ calls = <<>>
    /\ QueueIdle
    /\ EntryIdle

tparams == <<epoch_start, epoch_end, checkpoint_interval, log_interval,
             num_batches, val_batches, train_data, val_data>>

\* run_manager.log_metrics({"learning_rate": ...}, epoch_start) before the loop
LogInitialLR_skipped ==
    /\ tpc = "start"
    /\ tpc' = "for"
    /\ UNCHANGED <<tparams, epoch, batch, calls, locals, exc>>

LogInitialLR ==
    /\ tpc = "start"
    /\ calls' = Append(calls, Call("log_lr", epoch_start, IntStep(epoch_start)))
    /\ tpc' = "for"
    /\ UNCHANGED <<tparams, epoch, batch, locals, exc>>

\* for epoch in range(epoch_start, epoch_end): enter train_step (model.train(),
\* the counters set to 0) or leave train()
ForEpoch ==
    /\ tpc = "for"
    /\ IF InRange(epoch, epoch_end)
       THEN /\ tpc' = "train_step"
            /\ batch' = 0
            /\ locals' = ZeroLocals
            /\ calls' = Append(calls, Call("train_step", epoch, IntStep(epoch)))
       ELSE /\ tpc' = "returned"
            /\ UNCHANGED <<batch, calls, locals>>
    /\ UNCHANGED <<tparams, epoch, exc>>

\* one iteration of the batch loop of train_step; the forward/backward pass may
\* raise, which leaves train()
TrainBatch ==
    /\ tpc = "train_step"
    /\ batch < num_batches
    /\ \E ok \in BOOLEAN :
         IF ~ok
         THEN /\ tpc' = "raised"
              /\ exc' = "RuntimeError"
              /\ UNCHANGED <<batch, calls, locals>>
         ELSE LET acc == Accumulate(locals, train_data[batch + 1])
                  done == Append(calls, Call("train_batch", epoch, IntStep(batch)))
              IN
              IF ~ShouldLog(batch, log_interval)
              THEN /\ calls' = done
                   /\ locals' = acc
                   /\ batch' = batch + 1
                   /\ UNCHANGED <<tpc, exc>>
              ELSE IF acc.num_predictions = 0
              THEN /\ calls' = done
                   /\ locals' = acc
                   /\ tpc' = "raised"
                   /\ exc' = "ZeroDivisionError"
                   /\ UNCHANGED batch
              ELSE /\ calls' = Append(done,
                         LogCall("log_train", epoch,
                                 FracStep(epoch, batch, num_batches),
                                 [loss |-> <<train_data[batch + 1].loss, 1>>]
                                    @@ Ratios(acc)))
                   /\ locals' = ResetWindow(acc)
                   /\ batch' = batch + 1
                   /\ UNCHANGED <<tpc, exc>>
    /\ UNCHANGED <<tparams, epoch>>

\* train_step returns; test_step starts (model.eval(), the counters set to 0)
TrainStepReturn_skipEval ==
    /\ tpc = "train_step"
    /\ batch = num_batches
    /\ calls' = Append(calls, Call("train_step_end", epoch, IntStep(epoch)))
    /\ tpc' = "log_lr"
    /\ batch' = 0
    /\ locals' = ZeroLocals
    /\ UNCHANGED <<tparams, epoch, exc>>

TrainStepReturn ==
    /\ tpc = "train_step"
    /\ batch = num_batches
    /\ calls' = Append(calls, Call("train_step_end", epoch, IntStep(epoch)))
                  \o <<Call("test_step", epoch, IntStep(EvalStep(epoch)))>>
    /\ tpc' = "test_step"
    /\ batch' = 0
    /\ locals' = ZeroLocals
    /\ UNCHANGED <<tparams, epoch, exc>>

\* one iteration of the batch loop of test_step
EvalBatch ==
    /\ tpc = "test_step"
    /\ batch < val_batches
    /\ \E ok \in BOOLEAN :
         IF ok
         THEN /\ calls' = Append(calls, Call("eval_batch", epoch, IntStep(batch)))
              /\ locals' = Accumulate(locals, val_data[batch + 1])
              /\ batch' = batch + 1
              /\ UNCHANGED <<tpc, exc>>
         ELSE /\ tpc' = "raised"
              /\ exc' = "RuntimeError"
              /\ UNCHANGED <<batch, calls, locals>>
    /\ UNCHANGED <<tparams, epoch>>

\* the log_metrics call that ends test_step: test_loss / len(dataloader) and
\* x / num_predictions raise ZeroDivisionError when the divisor is 0
EvalLog ==
    /\ tpc = "test_step"
    /\ batch = val_batches
    /\ IF val_batches = 0 \/ locals.num_predictions = 0
       THEN /\ tpc' = "raised"
            /\ exc' = "ZeroDivisionError"
            /\ UNCHANGED calls
       ELSE /\ calls' = Append(calls,
                  LogCall("log_val", epoch, IntStep(EvalStep(epoch)),
                          [loss |-> <<locals.loss, val_batches>>] @@ Ratios(locals)))
                          \o <<Call("test_step_end", epoch, IntStep(EvalStep(epoch)))>>
            /\ tpc' = "log_lr"
            /\ UNCHANGED exc
    /\ UNCHANGED <<tparams, epoch, batch, locals>>

\* run_manager.log_metrics({"learning_rate": ...}, epoch + 1)
LogLR ==
    /\ tpc = "log_lr"
    /\ calls' = Append(calls, Call("log_lr", epoch, IntStep(epoch + 1)))
    /\ tpc' = "checkpoint"
    /\ UNCHANGED <<tparams, epoch, batch, locals, exc>>

\* if epoch % checkpoint_interval == 0 or epoch == epoch_end - 1:
\*     run_manager.save_model(model, epoch)      (which may raise)
Checkpoint_swallowed ==
    /\ tpc = "checkpoint"
    /\ IF ShouldCheckpoint(epoch, checkpoint_interval, epoch_end)
       THEN \E ok \in BOOLEAN :
              IF ok
              THEN /\ calls' = Append(calls, Call("save_model", epoch, IntStep(epoch)))
                   /\ tpc' = "lr_step"
                   /\ UNCHANGED exc
              ELSE /\ tpc' = "lr_step"
                   /\ exc' = "CheckpointIOError"
                   /\ UNCHANGED calls
       ELSE /\ tpc' = "lr_step"
            /\ UNCHANGED <<calls, exc>>
    /\ UNCHANGED <<tparams, epoch, batch, locals>>

Checkpoint ==
    /\ tpc = "checkpoint"
    /\ IF ShouldCheckpoint(epoch, checkpoint_interval, epoch_end)
       THEN \E ok \in BOOLEAN :
              IF ok
              THEN /\ calls' = Append(calls, Call("save_model", epoch, IntStep(epoch)))
                   /\ tpc' = "lr_step"
                   /\ UNCHANGED exc
              ELSE /\ tpc' = "raised"
                   /\ exc' = "CheckpointIOError"
                   /\ UNCHANGED calls
       ELSE /\ tpc' = "lr_step"
            /\ UNCHANGED <<calls, exc>>
    /\ UNCHANGED <<tparams, epoch, batch, locals>>

\* lr_scheduler.step(), then the next value of range()
LrSchedulerStep ==
    /\ tpc = "lr_step"
    /\ calls' = Append(calls, Call("lr_scheduler_step", epoch, IntStep(epoch)))
    /\ epoch' = epoch + 1
    /\ tpc' = "for"
    /\ UNCHANGED <<tparams, batch, locals, exc>>

TNext ==
    \/ (LogInitialLR /\ UNCHANGED <<qvars, evars>>)
    \/ (ForEpoch /\ UNCHANGED <<qvars, evars>>)
    \/ (TrainBatch /\ UNCHANGED <<qvars, evars>>)
    \/ (TrainStepReturn /\ UNCHANGED <<qvars, evars>>)
    \/ (EvalBatch /\ UNCHANGED <<qvars, evars>>)
    \/ (EvalLog /\ UNCHANGED <<qvars, evars>>)
    \/ (LogLR /\ UNCHANGED <<qvars, evars>>)
    \/ (Checkpoint /\ UNCHANGED <<qvars, evars>>)
    \/ (LrSchedulerStep /\ UNCHANGED <<qvars, evars>>)

SpecTrain == TInit /\ [][TNext]_vars

SpecPass == PInit /\ [][TNext]_vars

----------------------------------------------------------------------------
(* train.py: the confirmation prompt and train(args) *)

YES == <<"y", "e", "s">>

\* lines that can be typed at the prompt, as sequences of characters
Inputs ==
    { YES, <<"Y", "E", "S">>, <<"Y", "e", "s">>, <<"n", "o">>, <<>>, <<"y">>,
      <<"y", "e", "s", " ">> }

LowerChar(c) ==
    CASE c = "Y" -> "y"
      [] c = "E" -> "e"
      [] c = "S" -> "s"
      [] OTHER -> c

\* str.lower()
Lower(str) == [i \in 1..Len(str) |-> LowerChar(str[i])]

\* not (inp.lower() != "yes")
Confirmed_startsWithY(str) == Len(str) > 0 /\ Lower(str)[1] = "y"

Confirmed(str) == Lower(str) = YES

\* load_checkpoint(model, run_id, checkpoint_path): the artifact at the given
\* path when there is one, else the newest checkpoint of run_id; returns the
\* epoch index recorded in it
LoadCheckpoint(run_id, checkpoint_path) ==
    IF checkpoint_path # NONE
    THEN [kind |-> "explicit", epoch_index |-> path_epoch]
    ELSE [kind |-> "latest", epoch_index |-> latest_epoch]

\* the variables of train() that the entry point does not pass
trest == <<checkpoint_interval, log_interval, num_batches, val_batches, epoch,
           batch, tpc, train_data, val_data, locals, exc, calls>>

EInit ==
    /\ inp \in Inputs
    /\ args \in [num_epochs : 0..MaxNumEpochs,
                 device : {"cpu", "cuda", "tpu"},
                 continue_from_checkpoint_run_id : {NONE, "r1"},
                 continue_from_checkpoint_path : {NONE, "runs/r1/epoch"}]
    /\ cuda_available \in BOOLEAN
    /\ latest_epoch \in 0..MaxCkptEpoch
    /\ path_epoch \in 0..MaxCkptEpoch
    /\ loaded = "none"
    /\ epc = "prompt"
    /\ effects = <<>>
    /\ QueueIdle
    /\ TrainIdle

\* inp = input(...); if inp.lower() != "yes": raise Exception(...)
Confirm ==
    /\ epc = "prompt"
    /\ epc' = IF Confirmed(inp) THEN "setup" ELSE "aborted"
    /\ UNCHANGED <<inp, args, cuda_available, latest_epoch, path_epoch, loaded,
                   effects, epoch_start, epoch_end, trest>>

\* train(args) up to RunManager(args.run_id): the device checks, the
\* dataloaders, the model
Setup ==
    /\ epc = "setup"
    /\ IF args.device \notin {"cpu", "cuda"}
          \/ (args.device = "cuda" /\ ~cuda_available)
       THEN epc' = "raised" /\ UNCHANGED effects
       ELSE /\ effects' = effects \o <<"create_dataloaders", "DeepConvNet", "RunManager">>
            /\ epc' = "resolve"
    /\ UNCHANGED <<inp, args, cuda_available, latest_epoch, path_epoch, loaded,
                   epoch_start, epoch_end, trest>>

\* if run_id is not None and path is None: epoch_start = load_checkpoint(...)
\* else: epoch_start = 0
ResolveCheckpoint ==
    /\ epc = "resolve"
    /\ IF /\ args.continue_from_checkpoint_run_id # NONE
          /\ args.continue_from_checkpoint_path = NONE
       THEN LET c == LoadCheckpoint(args.continue_from_checkpoint_run_id,
                                    args.continue_from_checkpoint_path)
            IN /\ loaded' = c.kind
               /\ epoch_start' = c.epoch_index
       ELSE /\ epoch_start' = 0
            /\ UNCHANGED loaded
    /\ epc' = "log_run"
    /\ UNCHANGED <<inp, args, cuda_available, latest_epoch, path_epoch,
                   effects, epoch_end, trest>>

\* loss, optimizer, scheduler, run_manager.log_data, run_manager.log_files
LogRun ==
    /\ epc = "log_run"
    /\ effects' = effects \o <<"log_data", "log_files">>
    /\ epc' = "call_train"
    /\ UNCHANGED <<inp, args, cuda_available, latest_epoch, path_epoch, loaded,
                   epoch_start, epoch_end, trest>>

\* engine.train(..., epoch_start=epoch_start,
\*              epoch_end=epoch_start + args.num_epochs, ...)
CallTrain ==
    /\ epc = "call_train"
    /\ epoch_end' = epoch_start + args.num_epochs
    /\ effects' = Append(effects, "engine.train")
    /\ epc' = "end_run"
    /\ UNCHANGED <<inp, args, cuda_available, latest_epoch, path_epoch, loaded,
                   epoch_start, trest>>

\* run_manager.end_run()
EndRun ==
    /\ epc = "end_run"
    /\ effects' = Append(effects, "end_run")
    /\ epc' = "finished"
    /\ UNCHANGED <<inp, args, cuda_available, latest_epoch, path_epoch, loaded,
                   epoch_start, epoch_end, trest>>

ENext ==
    \/ (Confirm /\ UNCHANGED qvars)
    \/ (Setup /\ UNCHANGED qvars)
    \/ (ResolveCheckpoint /\ UNCHANGED qvars)
    \/ (LogRun /\ UNCHANGED qvars)
    \/ (CallTrain /\ UNCHANGED qvars)
    \/ (EndRun /\ UNCHANGED qvars)

SpecEntry == EInit /\ [][ENext]_vars

----------------------------------------------------------------------------
(* Properties of start_train_queue *)

IsCheckout(e) == e.ev = "checkout"

\* the task attempts, in order: one checkout-and-pull per attempt
Checkouts == SelectSeq(procLog, IsCheckout)

\* some external step of the attempt at position p exited non-zero
FailedAt(p) == \E i \in DOMAIN procLog : procLog[i].pos = p /\ ~procLog[i].ok

Stopped == pc \in {"done", "fault"}

\* a document whose tasks all carry name, run and git_checkout_target and
\* pass validation
WellFormed(d) == Validate(d) /\ \A i \in DOMAIN d : "name" \in DOMAIN d[i]

\* a task the validation rule of the queue document rejects
BadTask(t) ==
    \/ "run" \notin DOMAIN t
    \/ "git_checkout_target" \notin DOMAIN t
    \/ Contains(t.run, RM)

HasBadTask(d) == \E i \in DOMAIN d : BadTask(d[i])

\* C1: for a valid document of N tasks that is never edited, whatever subset
\* of tasks fails, positions 0..N-1 are attempted once each in increasing
\* order, every finished attempt has exactly one report (a failure iff one of
\* its steps exited non-zero), a failure leaves the runner running, and the
\* runner stops with position = N.
C1_FailureIsolation ==
    (numEdits = 0 /\ WellFormed(doc)) =>
        /\ \A i \in DOMAIN Checkouts : Checkouts[i].pos = i - 1
        /\ Len(Checkouts) <= Len(doc)
        /\ \A i \in DOMAIN reports :
              /\ reports[i].pos = i - 1
              /\ (reports[i].result = "failed") <=> FailedAt(i - 1)
        /\ Len(reports) \in {task_index, task_index + 1}
        /\ Len(reports) <= Len(Checkouts)
        /\ (Len(doc) > 0 => fault = "none")
        /\ (Stopped => /\ task_index = Len(doc)
                       /\ Len(Checkouts) = Len(doc)
                       /\ Len(reports) = Len(doc))

C1_Witness ==
    /\ pc = "done" /\ numEdits = 0 /\ WellFormed(doc)
    /\ Len(reports) >= 2
    /\ reports[1].result = "failed"
    /\ reports[2].result = "executed successfully"

\* C2: a load that reads a valid document no longer than position makes the
\* runner stop normally: no fault, and no step of that position or a later one.
C2_ShortDocumentStopsNormally ==
    \A k \in DOMAIN loads :
        (Validate(loads[k]) /\ Len(loads[k]) <= k - 1) =>
            /\ fault = "none"
            /\ \A i \in DOMAIN procLog : procLog[i].pos < k - 1

\* C3: when the runner stops after its continuation test, every position of
\* the (well-formed) document as persisted at that moment has been attempted.
C3_AppendedTasksAttempted ==
    (pc = "done" /\ WellFormed(doc)) => Len(doc) <= task_index

C5_InvalidDocumentRunsNothing ==
    \A k \in DOMAIN loads :
        HasBadTask(loads[k]) =>
            /\ pc = "fault" /\ fault = "ValueError"
            /\ k = Len(loads)
            /\ \A i \in DOMAIN procLog : procLog[i].pos < k - 1

C5_Witness ==
    /\ fault = "ValueError"
    /\ Len(loads) >= 2
    /\ Len(loads[Len(loads)]) >= Len(loads)
    /\ ~BadTask(loads[Len(loads)][Len(loads)])
    /\ Len(procLog) > 0

\* C16: the steps of one attempt run one after another in the order
\* checkout-and-pull, cache reset, task command; after a failed checkout no
\* other step of that task runs; the document is not loaded again while the
\* attempt is under way.
C16_StepsInOrder ==
    /\ \A i \in DOMAIN procLog :
          LET e == procLog[i] IN
          /\ e.ev = "checkout" => \A j \in 1..(i - 1) : procLog[j].pos < e.pos
          /\ e.ev = "reset_cuda" =>
                /\ i > 1
                /\ procLog[i - 1].ev = "checkout"
                /\ procLog[i - 1].pos = e.pos
                /\ procLog[i - 1].ok
          /\ e.ev = "run" =>
                /\ i > 1
                /\ procLog[i - 1].ev = "reset_cuda"
                /\ procLog[i - 1].pos = e.pos
          /\ (e.ev = "checkout" /\ ~e.ok) =>
                \A j \in (i + 1)..Len(procLog) : procLog[j].pos # e.pos
    /\ pc \in {"checkout", "reset_cuda", "run", "advance"} =>
          /\ Len(loads) = task_index + 1
          /\ \A i \in DOMAIN procLog : procLog[i].pos <= task_index

C16_Witness ==
    \E i \in DOMAIN procLog :
        /\ procLog[i].ev = "checkout" /\ ~procLog[i].ok
        /\ i + 3 <= Len(procLog)
        /\ procLog[i + 1].ev = "checkout"
        /\ procLog[i + 3].ev = "run"

\* C18: a non-empty document that validation accepts is processed without
\* any exception leaving the runner.
C18_AcceptedDocumentNeverFaults ==
    (numEdits = 0 /\ Len(doc) > 0 /\ Validate(doc)) => fault = "none"

\* C19: the closing line "All tasks executed successfully." is printed only
\* when no task failure was reported.
C19_FinalMessageMeansNoFailure ==
    finalMsg = "All tasks executed successfully." =>
        \A i \in DOMAIN reports : reports[i].result = "executed successfully"

----------------------------------------------------------------------------
(* Properties of train() *)

CallsOf(op) == { i \in DOMAIN calls : calls[i].op = op }

EpochsOf(op) == { calls[i].epoch : i \in CallsOf(op) }

EpochRange == epoch_start..(epoch_end - 1)

LogPoints == CallsOf("log_lr") \cup CallsOf("log_train") \cup CallsOf("log_val")

IsLogLR(c) == c.op = "log_lr"

\* C6: a run of train() over [S, E), S < E, saves exactly the epochs
\* {e : e mod k = 0} and E-1, each once, each tagged with its own epoch.
C6_CheckpointCadence ==
    (tpc = "returned" /\ epoch_start < epoch_end) =>
        /\ EpochsOf("save_model") =
             { e \in EpochRange : e % checkpoint_interval = 0 } \cup {epoch_end - 1}
        /\ Cardinality(CallsOf("save_model")) = Cardinality(EpochsOf("save_model"))
        /\ \A i \in CallsOf("save_model") : calls[i].step = <<calls[i].epoch, 1>>

C6_Witness ==
    /\ tpc = "returned"
    /\ \E i \in CallsOf("save_model") : calls[i].epoch % checkpoint_interval # 0
    /\ \E i \in CallsOf("save_model") : calls[i].epoch # epoch_end - 1
    /\ EpochsOf("save_model") # EpochRange

\* C7 as stated: a run of train() emits 2 * (epoch_end - epoch_start)
\* learning-rate points.
C7_TwoLearningRatePointsPerEpoch ==
    tpc = "returned" =>
        Cardinality(CallsOf("log_lr")) = 2 * (epoch_end - epoch_start)

\* C7 amended: a run of train() emits (epoch_end - epoch_start) + 1
\* learning-rate points, at the steps epoch_start, epoch_start + 1, ...,
\* epoch_end in this order: one before the loop and one at step e + 1 at the
\* end of every epoch e.
C7_OneLearningRatePointPerBoundary ==
    tpc = "returned" =>
        LET lr == SelectSeq(calls, IsLogLR) IN
        /\ Len(lr) = (epoch_end - epoch_start) + 1
        /\ \A i \in DOMAIN lr : lr[i].step = <<epoch_start + i - 1, 1>>

C7_Witness ==
    /\ tpc = "returned"
    /\ epoch_end - epoch_start >= 2
    /\ Cardinality(CallsOf("log_lr")) = (epoch_end - epoch_start) + 1

\* C8: a run of train() makes one training pass and one evaluation pass for
\* every epoch of [epoch_start, epoch_end) and no other.
C8_OnePassPerEpoch ==
    tpc = "returned" =>
        /\ EpochsOf("train_step") = EpochRange
        /\ EpochsOf("test_step") = EpochRange
        /\ Cardinality(CallsOf("train_step")) = epoch_end - epoch_start
        /\ Cardinality(CallsOf("test_step")) = epoch_end - epoch_start
        /\ Cardinality(CallsOf("train_step_end")) = epoch_end - epoch_start
        /\ Cardinality(CallsOf("test_step_end")) = epoch_end - epoch_start

C8_Witness ==
    /\ tpc = "returned"
    /\ epoch_end - epoch_start >= 2
    /\ Cardinality(CallsOf("test_step_end")) >= 2

\* C9: in every epoch the training pass ends before the evaluation pass
\* starts, the evaluation pass ends before the checkpoint write, the scheduler
\* is stepped once, after the evaluation and after the checkpoint write that
\* the epoch owes, and before the training pass of the next epoch.
C9_EpochOrdering ==
    \A i \in DOMAIN calls :
        LET c == calls[i]
            Before(op, e) == \E j \in 1..(i - 1) : calls[j].op = op /\ calls[j].epoch = e
            After(op, e) == \E j \in (i + 1)..Len(calls) : calls[j].op = op /\ calls[j].epoch = e
        IN
        /\ c.op = "test_step" => Before("train_step_end", c.epoch)
        /\ c.op = "save_model" => Before("test_step_end", c.epoch)
        /\ c.op = "lr_scheduler_step" =>
              /\ Before("test_step_end", c.epoch)
              /\ ~Before("lr_scheduler_step", c.epoch)
              /\ ~After("save_model", c.epoch)
              /\ ~After("test_step", c.epoch)
              /\ ((c.epoch % checkpoint_interval = 0 \/ c.epoch = epoch_end - 1)
                     => Before("save_model", c.epoch))
        /\ (c.op = "train_step" /\ c.epoch > epoch_start) =>
              Before("lr_scheduler_step", c.epoch - 1)

C9_Witness ==
    /\ tpc = "returned"
    /\ \E i \in CallsOf("save_model") :
          \E j \in CallsOf("train_step") : i < j /\ calls[j].epoch = calls[i].epoch + 1

\* C10: the step arguments of the log_metrics calls of one run never decrease.
C10_StepsNonDecreasing ==
    \A i \in LogPoints : \A j \in LogPoints :
        i < j => StepLeq(calls[i].step, calls[j].step)

C10_Witness ==
    \E i \in CallsOf("log_train") : \E j \in CallsOf("log_val") :
        \E k \in CallsOf("log_train") :
            i < j /\ j < k /\ calls[k].step[2] > 1

----------------------------------------------------------------------------
(* Properties of train_step and test_step *)

\* the state right after the iteration of batch - 1 logged a training point
JustFlushed ==
    tpc = "train_step" /\ batch > 0 /\ ShouldLog(batch - 1, log_interval)

\* batch index of a training point, recovered from its step
PointBatch(c) == (c.step[1] - c.epoch * c.step[2])

\* batches of epoch e at which a training point was logged
FlushBatches(e) ==
    { PointBatch(calls[i]) : i \in { j \in CallsOf("log_train") : calls[j].epoch = e } }

\* last flush before batch b, or -1
PrevFlush(F, b) ==
    IF \E x \in F : x < b
    THEN CHOOSE x \in F : x < b /\ \A y \in F : y < b => y <= x
    ELSE -1

RECURSIVE SumOver(_, _, _, _)
\* sum of field f over batches lo..hi (counted from 0) of data
SumOver(data, f, lo, hi) ==
    IF lo > hi THEN 0 ELSE data[lo + 1][f] + SumOver(data, f, lo + 1, hi)

\* the training point c reports the counts of exactly the batches after the
\* previous flush up to its own batch
CoversOwnWindow(c) ==
    LET b == PointBatch(c)
        lo == PrevFlush(FlushBatches(c.epoch), b) + 1
        n == SumOver(train_data, "len_y", lo, b)
    IN
    /\ c.metrics.accuracy = <<SumOver(train_data, "num_correct", lo, b), n>>
    /\ c.metrics.percent_incorrect_localization =
           <<SumOver(train_data, "num_incorrect_localization", lo, b), n>>
    /\ c.metrics.percent_incorrect_other =
           <<SumOver(train_data, "num_incorrect_other", lo, b), n>>
    /\ c.metrics.percent_incorrect_background =
           <<SumOver(train_data, "num_incorrect_background", lo, b), n>>

PassEnded(e) == \E i \in CallsOf("train_step_end") : calls[i].epoch = e

\* C11: the window is flushed exactly at the batches b # 0 with
\* b mod log_interval = 0, at step epoch + b / num_batches, and right after a
\* flush loss_sum and the five counts are all zero.
C11_FlushZeroesWindow ==
    /\ tpc = "train_step" =>
          FlushBatches(epoch) = { b \in 1..(batch - 1) : b % log_interval = 0 }
    /\ \A i \in CallsOf("log_train") : calls[i].step[2] = num_batches
    /\ JustFlushed => locals = ZeroLocals

\* C12: no pass raises ZeroDivisionError when it emits its ratios, also when
\* it has accumulated no sample.
C12_ZeroSamplesNeverFault ==
    exc # "ZeroDivisionError"

\* C15: an exception raised in a batch or by save_model leaves train(): from
\* then on no call is made, no batch is processed and no epoch starts.
C15_ExceptionAbortsLoop ==
    /\ [](exc # "none" => tpc = "raised")
    /\ [][exc # "none" => UNCHANGED <<calls, epoch, batch, locals, tpc>>]_vars

C15_Witness ==
    /\ exc = "CheckpointIOError"
    /\ tpc = "raised"
    /\ epoch < epoch_end - 1
    /\ CallsOf("lr_scheduler_step") # {}

\* C20 as stated: once a training pass has ended, every training point covers
\* exactly the batches since the previous flush and every batch of the epoch
\* is in one of the points.
C20_WindowsPartitionAllBatches ==
    \A e \in EpochsOf("train_step") :
        /\ \A i \in CallsOf("log_train") : CoversOwnWindow(calls[i])
        /\ PassEnded(e) =>
              \A b \in 0..(num_batches - 1) : \E f \in FlushBatches(e) : b <= f

\* C20 amended: every training point covers exactly the batches since the
\* previous flush, no two points share a batch, and once the pass has ended
\* the points are those of the batches b # 0 with b mod log_interval = 0, so
\* the batches after the last such b (all batches when there is none) are in
\* no point.
C20_WindowsCoverUpToLastFlush ==
    /\ \A i \in CallsOf("log_train") : CoversOwnWindow(calls[i])
    /\ \A i \in CallsOf("log_train") : \A j \in CallsOf("log_train") :
          (calls[i].epoch = calls[j].epoch /\ PointBatch(calls[i]) = PointBatch(calls[j]))
              => i = j
    /\ \A e \in EpochsOf("train_step") :
          PassEnded(e) =>
              FlushBatches(e) = { b \in 1..(num_batches - 1) : b % log_interval = 0 }

C20_Witness ==
    /\ PassEnded(epoch_start)
    /\ FlushBatches(epoch_start) # {}
    /\ \E b \in 0..(num_batches - 1) : \A f \in FlushBatches(epoch_start) : f < b

----------------------------------------------------------------------------
(* Properties of the train.py entry point *)

\* the checkpoint resolution of train(args) is over
Resolved == epc \in {"log_run", "call_train", "end_run", "finished"}

\* engine.train has been called
TrainCalled == epc \in {"end_run", "finished"}

\* "yes" in any mix of upper and lower case
IsYesToken(str) ==
    /\ Len(str) = 3
    /\ str[1] \in {"y", "Y"} /\ str[2] \in {"e", "E"} /\ str[3] \in {"s", "S"}

\* C13: with an explicit path that artifact is loaded; with only a run id the
\* latest checkpoint of that run is loaded; only with neither does training
\* start at epoch 0 with nothing loaded.
C13_CheckpointResolution ==
    Resolved =>
        /\ args.continue_from_checkpoint_path # NONE => loaded = "explicit"
        /\ (args.continue_from_checkpoint_path = NONE
              /\ args.continue_from_checkpoint_run_id # NONE) => loaded = "latest"
        /\ (args.continue_from_checkpoint_path = NONE
              /\ args.continue_from_checkpoint_run_id = NONE)
              => (loaded = "none" /\ epoch_start = 0)
        /\ loaded = "none" =>
              (args.continue_from_checkpoint_path = NONE
                 /\ args.continue_from_checkpoint_run_id = NONE)

\* C14: after a checkpoint of epoch index c was loaded, engine.train is called
\* with epoch_start = c + 1 and epoch_end = c + 1 + num_epochs.
C14_ResumeAfterCheckpointEpoch ==
    (TrainCalled /\ loaded # "none") =>
        LET c == IF loaded = "explicit" THEN path_epoch ELSE latest_epoch IN
        /\ epoch_start = c + 1
        /\ epoch_end = c + 1 + args.num_epochs

\* C17: after any input other than "yes" (in any case) nothing is constructed
\* or written and train(args) is never entered.
C17_NoConfirmationNoEffects ==
    ~IsYesToken(inp) =>
        /\ effects = <<>>
        /\ epc \in {"prompt", "aborted"}
        /\ loaded = "none"
        /\ epoch_start = 0 /\ epoch_end = 0 /\ calls = <<>>

C17_Witness ==
    /\ epc = "aborted"
    /\ inp = <<"y">>
    /\ effects = <<>>

====
